---------------------------- MODULE Spec2Model ----------------------------
(***************************************************************************)
(* questdb-retention (src/src/main.rs): a retention tool that, for each    *)
(* configured table, looks the table up in the catalog, validates a        *)
(* retention period, computes the oldest timestamp to keep and submits an  *)
(* ALTER TABLE ... DROP PARTITION statement.                               *)
(*                                                                         *)
(* Time is counted in whole hours since the epoch.  chrono's Duration and  *)
(* DateTime have a finite range and panic when it is exceeded; the range   *)
(* is scaled down here (DurationMax, DateTimeSpan) so that amounts on both *)
(* sides of each limit are among the inputs.                               *)
(***************************************************************************)
EXTENDS Integers, Sequences, FiniteSets, TLC

VARIABLES
    args,      \* Args: config_path given?, interactive flag
    cfgFile,   \* what the configuration file holds
    tables,    \* main's `tables`: table name -> amount
    pc,        \* where main is
    todo,      \* keys of `tables` the batch loop has not visited yet
    chosen,    \* interactive session: the catalog row of the chosen table
    out,       \* the lines printed so far
    calls,     \* the database calls made so far
    parts,     \* the store: table name -> set of partition timestamps
    clock,     \* Utc::now(), in hours
    prev,      \* executor history: table -> its last successful run
    exec,      \* executor history: the most recent invocation
    probe      \* the last application of a pure function

vars == <<args, cfgFile, tables, pc, todo, chosen, out, calls, parts, clock,
          prev, exec, probe>>

progVars == <<args, cfgFile, tables, pc, todo, chosen, out, calls>>

---------------------------------------------------------------------------
(* Bounds of the model *)

\* amounts -MaxSmall..MaxSmall are among the inputs
MaxSmall == 7
\* the clock at the start, and how many hours it may advance
Clock0 == 48
MaxTicks == 2
\* scaled chrono limits: the largest Duration, and how far before the epoch
\* the earliest DateTime lies (both in hours)
DurationMax == 2400
DateTimeSpan == 960
\* the amounts 1..MaxExecAmount are configured between repeated runs
MaxExecAmount == 2
\* scaled i32::MAX: the amounts the interactive prompt accepts
I32Max == 1000

\* Duration::days counts 24 hours per day
HoursPerDay == 24

---------------------------------------------------------------------------
(* enum PartitionBy: the variants, by discriminant *)

PB_None == 0
PB_Year == 1
PB_Month == 2
PB_Day == 3
PB_Hour == 4

PartitionBy == {PB_None, PB_Year, PB_Month, PB_Day, PB_Hour}

\* #[derive(Debug)] prints the variant's name
DebugPartitionBy(p) ==
    CASE p = PB_None -> "None"
      [] p = PB_Year -> "Year"
      [] p = PB_Month -> "Month"
      [] p = PB_Day -> "Day"
      [] p = PB_Hour -> "Hour"

\* impl fmt::Display for PartitionBy: write!(f, "{:?}", self)
FormatPartitionBy(p) == DebugPartitionBy(p)

\* A Result is a record: tag "Ok" with the value's fields, or the error
\* variant's name as tag with the value the variant carries.

\* impl FromStr for PartitionBy
FromStrPartitionBy(input) ==
    CASE input = "NONE" -> [tag |-> "Ok", pb |-> PB_None]
      [] input = "YEAR" -> [tag |-> "Ok", pb |-> PB_Year]
      [] input = "MONTH" -> [tag |-> "Ok", pb |-> PB_Month]
      [] input = "DAY" -> [tag |-> "Ok", pb |-> PB_Day]
      [] input = "HOUR" -> [tag |-> "Ok", pb |-> PB_Hour]
      [] OTHER -> [tag |-> "UnknownPartitionBy", text |-> input]

\* new_retention_period with the amount test written `< 0`
new_retention_period_ZeroAllowed(amount, partition_by) ==
    IF partition_by = PB_None
    THEN [tag |-> "InvalidPartitionBy", pb |-> partition_by]
    ELSE IF amount < 0
    THEN [tag |-> "InvalidAmount", amount |-> amount]
    ELSE [tag |-> "Ok", amount |-> amount, pb |-> partition_by]

\* new_retention_period without the test for PartitionBy::None
new_retention_period_NoneAllowed(amount, partition_by) ==
    IF amount <= 0
    THEN [tag |-> "InvalidAmount", amount |-> amount]
    ELSE [tag |-> "Ok", amount |-> amount, pb |-> partition_by]

\* fn new_retention_period: Ok carries RetentionPeriod {amount, partition_by}
new_retention_period(amount, partition_by) ==
    IF partition_by = PB_None
    THEN [tag |-> "InvalidPartitionBy", pb |-> partition_by]
    ELSE IF amount <= 0
    THEN [tag |-> "InvalidAmount", amount |-> amount]
    ELSE [tag |-> "Ok", amount |-> amount, pb |-> partition_by]

---------------------------------------------------------------------------
(* chrono *)

DateTimeMin == 0 - DateTimeSpan

\* Duration::days(n) / Duration::hours(n): the hours, or a panic when the
\* product overflows or leaves the Duration range ("out of bounds")
DurationOf(n, unit) ==
    IF n * unit > DurationMax \/ n * unit < 0 - DurationMax
    THEN [tag |-> "Panic", cause |-> "Duration out of bounds"]
    ELSE [tag |-> "Ok", hours |-> n * unit]

\* DateTime - Duration: expect("`DateTime - Duration` overflowed")
DateTimeSub(now, d) ==
    IF d.tag = "Panic"
    THEN d
    ELSE IF now - d.hours < DateTimeMin
    THEN [tag |-> "Panic", cause |-> "DateTime - Duration overflowed"]
    ELSE [tag |-> "Ok", ts |-> now - d.hours]

\* get_oldest_timestamp with the TODO filled in: a month counted as 30 days
get_oldest_timestamp_Months(p, now) ==
    CASE p.pb = PB_Day -> DateTimeSub(now, DurationOf(p.amount, HoursPerDay))
      [] p.pb = PB_Hour -> DateTimeSub(now, DurationOf(p.amount, 1))
      [] p.pb = PB_Month -> DateTimeSub(now, DurationOf(p.amount * 30, HoursPerDay))
      [] OTHER -> [tag |-> "UnsupportedPartitionBy", pb |-> p.pb]

\* get_oldest_timestamp with the Duration added to the clock
get_oldest_timestamp_Future(p, now) ==
    CASE p.pb = PB_Day -> DateTimeSub(now, DurationOf(0 - p.amount, HoursPerDay))
      [] p.pb = PB_Hour -> DateTimeSub(now, DurationOf(0 - p.amount, 1))
      [] p.pb = PB_None -> [tag |-> "UnsupportedPartitionBy", pb |-> p.pb]
      [] OTHER -> [tag |-> "UnsupportedPartitionBy", pb |-> p.pb]

\* get_oldest_timestamp with the clock read once, when the program starts
get_oldest_timestamp_AtStart(p, now) ==
    CASE p.pb = PB_Day -> DateTimeSub(Clock0, DurationOf(p.amount, HoursPerDay))
      [] p.pb = PB_Hour -> DateTimeSub(Clock0, DurationOf(p.amount, 1))
      [] p.pb = PB_None -> [tag |-> "UnsupportedPartitionBy", pb |-> p.pb]
      [] OTHER -> [tag |-> "UnsupportedPartitionBy", pb |-> p.pb]

\* fn get_oldest_timestamp(p), with `now` the value Utc::now() returns
get_oldest_timestamp(p, now) ==
    CASE p.pb = PB_Day -> DateTimeSub(now, DurationOf(p.amount, HoursPerDay))
      [] p.pb = PB_Hour -> DateTimeSub(now, DurationOf(p.amount, 1))
      [] p.pb = PB_None -> [tag |-> "UnsupportedPartitionBy", pb |-> p.pb]
      [] OTHER -> [tag |-> "UnsupportedPartitionBy", pb |-> p.pb]

\* hour 0 of the clock is 2024-06-08T00:00:00Z, day 19882 since 1970-01-01,
\* so that the clock starts at 2024-06-10T00:00:00Z
Day0 == 19882

\* the proleptic Gregorian date of day z since 1970-01-01
CivilFromDays(z) ==
    LET zz == z + 719468
        era == zz \div 146097
        doe == zz - era * 146097
        yoe == (doe - doe \div 1460 + doe \div 36524 - doe \div 146096) \div 365
        doy == doe - (365 * yoe + yoe \div 4 - yoe \div 100)
        mp == (5 * doy + 2) \div 153
        m == IF mp < 10 THEN mp + 3 ELSE mp - 9
    IN  [y |-> yoe + era * 400 + (IF m <= 2 THEN 1 ELSE 0),
         m |-> m,
         d |-> doy - (153 * mp + 2) \div 5 + 1]

\* two digits, zero-padded
Pad2(n) == IF n < 10 THEN "0" \o ToString(n) ELSE ToString(n)

\* the date of a time, as %Y-%m-%d, and its time of day, as %H:%M:%S
FormatDate(ts) ==
    LET c == CivilFromDays(Day0 + ts \div HoursPerDay)
    IN  ToString(c.y) \o "-" \o Pad2(c.m) \o "-" \o Pad2(c.d)

FormatTime(ts) == Pad2(ts % HoursPerDay) \o ":00:00"

\* impl Display for DateTime<Utc>, what `{}` writes: the date, a space, the
\* time (with a fraction when the nanoseconds are not 0, which whole hours
\* never have), a space and the zone
DisplayDateTime(ts) == FormatDate(ts) \o " " \o FormatTime(ts) \o " UTC"

\* the pattern the statement hands to to_timestamp: yyyy-MM-dd:HH:mm:ss
PatternDateTime(ts) == FormatDate(ts) \o ":" \o FormatTime(ts)

---------------------------------------------------------------------------
(* The database: the catalog tables() and the partitions of each table *)

\* tables(): name -> partitionBy label and designated timestamp column
\* (hasTs = FALSE: the column is NULL, the table has no designated timestamp)
Catalog ==
    [name \in {"trades", "quotes", "logs", "archive", "refdata", "legacy"} |->
        CASE name = "trades" ->
               [partitionBy |-> "DAY", hasTs |-> TRUE, designatedTimestamp |-> "ts"]
          [] name = "quotes" ->
               [partitionBy |-> "HOUR", hasTs |-> TRUE, designatedTimestamp |-> "timestamp"]
          [] name = "logs" ->
               [partitionBy |-> "MONTH", hasTs |-> TRUE, designatedTimestamp |-> "ts"]
          [] name = "archive" ->
               [partitionBy |-> "YEAR", hasTs |-> TRUE, designatedTimestamp |-> "ts"]
          [] name = "refdata" ->
               [partitionBy |-> "NONE", hasTs |-> FALSE, designatedTimestamp |-> ""]
          [] name = "legacy" ->
               [partitionBy |-> "WEEK", hasTs |-> TRUE, designatedTimestamp |-> "ts"]]

CatalogNames == DOMAIN Catalog

\* names a configuration or an operator may give: the catalog's and one that
\* is in no catalog row
TableNames == CatalogNames \cup {"ghost"}

\* the partitions each table holds at the start (one row in each)
StoreInit ==
    [name \in CatalogNames |->
        CASE name = "trades" -> {0, 24, 48}
          [] name = "quotes" -> {47, 48}
          [] OTHER -> {0}]

\* what each database call does: TRUE = it fails with a connection error
\* (the first failing call ends the handler, so at most one call fails)
DbFaults ==
    {f \in [row : BOOLEAN, col : BOOLEAN, stmt : BOOLEAN] :
        ~(f.row /\ f.col) /\ ~(f.row /\ f.stmt) /\ ~(f.col /\ f.stmt)}

\* fn row_to_table
row_to_table(name) ==
    LET p == FromStrPartitionBy(Catalog[name].partitionBy)
    IN  IF p.tag = "Ok"
        THEN [tag |-> "Ok", name |-> name, pb |-> p.pb]
        ELSE p

\* fn get_timestamp_col: query_one fails on a connection error and when no
\* row matches; Row::get panics on a NULL column
get_timestamp_col(table, fault) ==
    IF fault \/ table \notin CatalogNames
    THEN [tag |-> "DbError", op |-> "query_col"]
    ELSE IF ~Catalog[table].hasTs
    THEN [tag |-> "Panic", cause |-> "NULL column"]
    ELSE [tag |-> "Ok", col |-> Catalog[table].designatedTimestamp]

\* the statement written with `<=`
DroppedBy_Inclusive(store, table, ts) == {q \in store[table] : q <= ts}

\* the statement written with `>`
DroppedBy_Inverted(store, table, ts) == {q \in store[table] : q > ts}

\* the partitions "ALTER TABLE t DROP PARTITION WHERE col < ts" removes
DroppedBy(store, table, ts) == {q \in store[table] : q < ts}

\* run with the cutoff's error looked at only after the statement went out:
\* an unsupported granularity falls back to a cutoff of `now`
run_SubmitsAnyway(table, p, now, store, faults) ==
    LET colCall == [op |-> "query_col", table |-> table]
        col == get_timestamp_col(table, faults.col)
    IN  IF col.tag # "Ok"
        THEN [res |-> col, calls |-> <<colCall>>, parts |-> store]
        ELSE
        LET timestamp == get_oldest_timestamp(p, now)
            cutoff == IF timestamp.tag = "Ok" THEN timestamp.ts ELSE now
            stmt == [op |-> "execute", table |-> table, col |-> col.col,
                     ts |-> cutoff, now |-> now,
                     text |-> DisplayDateTime(cutoff)]
            gone == DroppedBy(store, table, cutoff)
        IN  IF timestamp.tag = "Panic"
            THEN [res |-> timestamp, calls |-> <<colCall>>, parts |-> store]
            ELSE IF faults.stmt
            THEN [res |-> [tag |-> "DbError", op |-> "execute"],
                  calls |-> <<colCall, stmt>>, parts |-> store]
            ELSE [res |-> IF timestamp.tag = "Ok"
                          THEN [tag |-> "Ok", n |-> Cardinality(gone), ts |-> cutoff]
                          ELSE timestamp,
                  calls |-> <<colCall, stmt>>,
                  parts |-> [store EXCEPT ![table] = @ \ gone]]

\* run with the first two steps swapped: the cutoff is computed before the
\* timestamp column is looked up
run_CutoffFirst(table, p, now, store, faults) ==
    LET colCall == [op |-> "query_col", table |-> table]
        timestamp == get_oldest_timestamp(p, now)
    IN  IF timestamp.tag # "Ok"
        THEN [res |-> timestamp, calls |-> <<>>, parts |-> store]
        ELSE
        LET col == get_timestamp_col(table, faults.col)
        IN  IF col.tag # "Ok"
            THEN [res |-> col, calls |-> <<colCall>>, parts |-> store]
            ELSE
            LET stmt == [op |-> "execute", table |-> table, col |-> col.col,
                         ts |-> timestamp.ts, now |-> now,
                         text |-> DisplayDateTime(timestamp.ts)]
                gone == DroppedBy(store, table, timestamp.ts)
            IN  IF faults.stmt
                THEN [res |-> [tag |-> "DbError", op |-> "execute"],
                      calls |-> <<colCall, stmt>>, parts |-> store]
                ELSE [res |-> [tag |-> "Ok", n |-> Cardinality(gone), ts |-> timestamp.ts],
                      calls |-> <<colCall, stmt>>,
                      parts |-> [store EXCEPT ![table] = @ \ gone]]

\* fn run(client, table, p): the result, the calls it made, the store after.
\* The statement is recorded by its parts: the table, the column, the cutoff
\* (ts), the text written for the cutoff, and the clock the cutoff came from.
run(table, p, now, store, faults) ==
    LET colCall == [op |-> "query_col", table |-> table]
        col == get_timestamp_col(table, faults.col)
    IN  IF col.tag # "Ok"
        THEN [res |-> col, calls |-> <<colCall>>, parts |-> store]
        ELSE
        LET timestamp == get_oldest_timestamp(p, now)
        IN  IF timestamp.tag # "Ok"
            THEN [res |-> timestamp, calls |-> <<colCall>>, parts |-> store]
            ELSE
            LET stmt == [op |-> "execute", table |-> table, col |-> col.col,
                         ts |-> timestamp.ts, now |-> now,
                         text |-> DisplayDateTime(timestamp.ts)]
                gone == DroppedBy(store, table, timestamp.ts)
            IN  IF faults.stmt
                THEN [res |-> [tag |-> "DbError", op |-> "execute"],
                      calls |-> <<colCall, stmt>>, parts |-> store]
                ELSE [res |-> [tag |-> "Ok", n |-> Cardinality(gone), ts |-> timestamp.ts],
                      calls |-> <<colCall, stmt>>,
                      parts |-> [store EXCEPT ![table] = @ \ gone]]

---------------------------------------------------------------------------
(* Inputs *)

MaxClock == Clock0 + MaxTicks

\* amounts on both sides of each chrono limit: the largest count of days
\* DateTime still holds, the first it does not, the first count of days and
\* of hours no Duration holds, and the first count of hours before DateTimeMin
BigAmounts ==
    { DateTimeSpan \div HoursPerDay,
      (MaxClock + DateTimeSpan) \div HoursPerDay + 1,
      DurationMax \div HoursPerDay + 1,
      MaxClock + DateTimeSpan + 1,
      DurationMax + 1 }

\* the i64 amounts a configuration may hold
Amounts == ((0 - MaxSmall)..MaxSmall) \cup BigAmounts

\* the i32 amounts the interactive prompt's validator lets through
I32Amounts == {a \in Amounts : a >= 0 - I32Max - 1 /\ a <= I32Max}

\* the table -> amount mappings a configuration file may hold: none, one
\* table with any amount, and some of three tables
Configs ==
    {<<>>}
    \cup {[n \in {t} |-> a] : t \in TableNames, a \in {0 - 1, 0, 1, 2} \cup BigAmounts}
    \cup { ("trades" :> 1) @@ ("ghost" :> 1) @@ ("quotes" :> 2),
           ("trades" :> 2) @@ ("quotes" :> DurationMax + 1) @@ ("logs" :> 1),
           ("refdata" :> 1) @@ ("legacy" :> 1) @@ ("archive" :> 2),
           ("trades" :> 0) @@ ("quotes" :> 1) @@ ("refdata" :> 0 - 1) }

\* the file behind --config-path: unreadable, not a Config, or a Config
ConfigFiles ==
    {[tag |-> "OpenError"], [tag |-> "ParseError"]}
    \cup {[tag |-> "Ok", tables |-> c] : c \in Configs}

NoFile == [tag |-> "NoFile"]
NoTable == [tag |-> "None"]
NoExec == [tag |-> "None"]
NoProbe == [fn |-> "none"]

\* texts FromStr may be given: the five labels and others
Texts ==
    {"NONE", "YEAR", "MONTH", "DAY", "HOUR", "None", "Year", "Month", "Day",
     "Hour", "none", "day", "WEEK", "", " DAY", "DAYS"}

\* the process has ended: main returned, exit() was called, or it panicked
Terminal == {"done", "exit0", "exit1", "panicked"}

---------------------------------------------------------------------------
(* main *)

\* a printed line: the table it is about ("" for none) and what it reports
Line(t, res) == [table |-> t, res |-> res]

\* the panic of .unwrap() on an Err
Unwrapped(err) == [tag |-> "Panic", cause |-> err]

\* what a prompt returns: Ok(Some(text)), Ok(None) or Err
TableAnswers ==
    {[tag |-> "Some", text |-> t] : t \in TableNames \cup {"TRADES"}}
    \cup {[tag |-> "None"], [tag |-> "Err"]}

AmountAnswers ==
    {[tag |-> "Some", amount |-> a] : a \in I32Amounts}
    \cup {[tag |-> "None"], [tag |-> "Err"]}

\* lines 260-277, the body of `for t in tables.keys()` for key t: the line
\* printed (the panic message on a panic), the database calls made and the
\* store after
BatchBody(t, amount, now, store, faults) ==
    LET rowCall == [op |-> "query_row", table |-> t]
        stop(res, cs) ==
            [panic |-> FALSE, line |-> [table |-> t, res |-> res],
             calls |-> cs, parts |-> store]
    IN  IF faults.row \/ t \notin CatalogNames
        THEN stop([tag |-> "DbError", op |-> "query_row"], <<rowCall>>)
        ELSE
        LET tb == row_to_table(t)
        IN  IF tb.tag # "Ok"
            THEN stop(tb, <<rowCall>>)
            ELSE
            LET p == new_retention_period(amount, tb.pb)
            IN  IF p.tag # "Ok"
                THEN stop(p, <<rowCall>>)
                ELSE
                LET r == run(tb.name, p, now, store, faults)
                IN  [panic |-> r.res.tag = "Panic",
                     line |-> [table |-> t, res |-> r.res],
                     calls |-> <<rowCall>> \o r.calls,
                     parts |-> r.parts]

\* Start with the interactive flag not looked at: the batch loop is entered
\* whatever the flag says
Start_IgnoresInteractive ==
    /\ pc = "start"
    /\ \E connFails \in BOOLEAN :
        IF args.config /\ cfgFile.tag # "Ok"
        THEN /\ pc' = "exit1"
             /\ out' = Append(out, Line("", [tag |-> cfgFile.tag]))
             /\ UNCHANGED <<tables, todo, calls>>
        ELSE LET loaded == IF args.config THEN cfgFile.tables ELSE <<>>
             IN  /\ tables' = loaded
                 /\ calls' = Append(calls, [op |-> "connect", table |-> ""])
                 /\ IF connFails
                    THEN /\ pc' = "panicked"
                         /\ out' = Append(out, Line("", Unwrapped("connect")))
                         /\ UNCHANGED todo
                    ELSE /\ todo' = DOMAIN loaded
                         /\ pc' = IF DOMAIN loaded = {} THEN "done" ELSE "batch"
                         /\ UNCHANGED out
    /\ UNCHANGED <<args, cfgFile, chosen, parts, clock, prev, exec, probe>>

\* lines 166-191: parse the arguments, load the configuration, connect
Start ==
    /\ pc = "start"
    /\ \E connFails \in BOOLEAN :
        IF args.config /\ cfgFile.tag # "Ok"
        THEN /\ pc' = "exit1"
             /\ out' = Append(out, Line("", [tag |-> cfgFile.tag]))
             /\ UNCHANGED <<tables, todo, calls>>
        ELSE LET loaded == IF args.config THEN cfgFile.tables ELSE <<>>
             IN  /\ tables' = loaded
                 /\ calls' = Append(calls, [op |-> "connect", table |-> ""])
                 /\ IF connFails
                    THEN /\ pc' = "panicked"
                         /\ out' = Append(out, Line("", Unwrapped("connect")))
                         /\ UNCHANGED todo
                    ELSE IF args.interactive
                    THEN pc' = "await_table" /\ UNCHANGED <<out, todo>>
                    ELSE /\ todo' = DOMAIN loaded
                         /\ pc' = IF DOMAIN loaded = {} THEN "done" ELSE "batch"
                         /\ UNCHANGED out
    /\ UNCHANGED <<args, cfgFile, chosen, parts, clock, prev, exec, probe>>

\* lines 260-277: one iteration of the batch loop, and main's return after
\* the last one
BatchStep ==
    /\ pc = "batch"
    /\ \E t \in todo, faults \in DbFaults :
        LET b == BatchBody(t, tables[t], clock, parts, faults)
        IN  /\ calls' = calls \o b.calls
            /\ parts' = b.parts
            /\ out' = Append(out, b.line)
            /\ IF b.panic
               THEN pc' = "panicked" /\ UNCHANGED todo
               ELSE /\ todo' = todo \ {t}
                    /\ pc' = IF todo = {t} THEN "done" ELSE "batch"
    /\ UNCHANGED <<args, cfgFile, tables, chosen, clock, prev, exec, probe>>

\* AnswerTable with the table prompt shown again after a name no catalog
\* row has
AnswerTable_AsksAgain ==
    /\ pc = "await_table"
    /\ \E answer \in TableAnswers, queryFails \in BOOLEAN :
        CASE answer.tag = "Err" ->
               /\ out' = Append(out, Line("", [tag |-> "PromptError"]))
               /\ pc' = "exit0"
               /\ UNCHANGED <<calls, chosen>>
          [] answer.tag = "None" ->
               /\ out' = Append(out, Line("", [tag |-> "NoTableSupplied"]))
               /\ pc' = "exit1"
               /\ UNCHANGED <<calls, chosen>>
          [] OTHER ->
               LET t == answer.text
               IN  /\ calls' = Append(calls, [op |-> "query_tables", table |-> ""])
                   /\ IF queryFails
                      THEN /\ out' = Append(out, Line(t, Unwrapped("query")))
                           /\ pc' = "panicked"
                           /\ UNCHANGED chosen
                      ELSE IF t \notin CatalogNames
                      THEN /\ out' = Append(out, Line(t, [tag |-> "TableNotFound"]))
                           /\ pc' = "await_table"
                           /\ UNCHANGED chosen
                      ELSE
                      LET tb == row_to_table(t)
                      IN  IF tb.tag # "Ok"
                          THEN /\ out' = Append(out, Line(t, Unwrapped(tb.tag)))
                               /\ pc' = "panicked"
                               /\ UNCHANGED chosen
                          ELSE IF tb.pb = PB_None
                          THEN /\ out' = Append(out, Line(t, [tag |-> "PartitionByNone"]))
                               /\ pc' = "exit1"
                               /\ UNCHANGED chosen
                          ELSE /\ chosen' = tb
                               /\ pc' = "await_amount"
                               /\ UNCHANGED out
    /\ UNCHANGED <<args, cfgFile, tables, todo, parts, clock, prev, exec, probe>>

\* AnswerTable without the test `table.partition_by == PartitionBy::None`
AnswerTable_NoNoneTest ==
    /\ pc = "await_table"
    /\ \E answer \in TableAnswers, queryFails \in BOOLEAN :
        CASE answer.tag = "Err" ->
               /\ out' = Append(out, Line("", [tag |-> "PromptError"]))
               /\ pc' = "exit0"
               /\ UNCHANGED <<calls, chosen>>
          [] answer.tag = "None" ->
               /\ out' = Append(out, Line("", [tag |-> "NoTableSupplied"]))
               /\ pc' = "exit1"
               /\ UNCHANGED <<calls, chosen>>
          [] OTHER ->
               LET t == answer.text
               IN  /\ calls' = Append(calls, [op |-> "query_tables", table |-> ""])
                   /\ IF queryFails
                      THEN /\ out' = Append(out, Line(t, Unwrapped("query")))
                           /\ pc' = "panicked"
                           /\ UNCHANGED chosen
                      ELSE IF t \notin CatalogNames
                      THEN /\ out' = Append(out, Line(t, [tag |-> "TableNotFound"]))
                           /\ pc' = "exit1"
                           /\ UNCHANGED chosen
                      ELSE
                      LET tb == row_to_table(t)
                      IN  IF tb.tag # "Ok"
                          THEN /\ out' = Append(out, Line(t, Unwrapped(tb.tag)))
                               /\ pc' = "panicked"
                               /\ UNCHANGED chosen
                          ELSE /\ chosen' = tb
                               /\ pc' = "await_amount"
                               /\ UNCHANGED out
    /\ UNCHANGED <<args, cfgFile, tables, todo, parts, clock, prev, exec, probe>>

\* lines 192-205 and 246-255: the operator answers the table prompt; the
\* catalog rows are searched for that name
AnswerTable ==
    /\ pc = "await_table"
    /\ \E answer \in TableAnswers, queryFails \in BOOLEAN :
        CASE answer.tag = "Err" ->
               /\ out' = Append(out, Line("", [tag |-> "PromptError"]))
               /\ pc' = "exit0"
               /\ UNCHANGED <<calls, chosen>>
          [] answer.tag = "None" ->
               /\ out' = Append(out, Line("", [tag |-> "NoTableSupplied"]))
               /\ pc' = "exit1"
               /\ UNCHANGED <<calls, chosen>>
          [] OTHER ->
               LET t == answer.text
               IN  /\ calls' = Append(calls, [op |-> "query_tables", table |-> ""])
                   /\ IF queryFails
                      THEN /\ out' = Append(out, Line(t, Unwrapped("query")))
                           /\ pc' = "panicked"
                           /\ UNCHANGED chosen
                      ELSE IF t \notin CatalogNames
                      THEN /\ out' = Append(out, Line(t, [tag |-> "TableNotFound"]))
                           /\ pc' = "exit1"
                           /\ UNCHANGED chosen
                      ELSE
                      LET tb == row_to_table(t)
                      IN  IF tb.tag # "Ok"
                          THEN /\ out' = Append(out, Line(t, Unwrapped(tb.tag)))
                               /\ pc' = "panicked"
                               /\ UNCHANGED chosen
                          ELSE IF tb.pb = PB_None
                          THEN /\ out' = Append(out, Line(t, [tag |-> "PartitionByNone"]))
                               /\ pc' = "exit1"
                               /\ UNCHANGED chosen
                          ELSE /\ chosen' = tb
                               /\ pc' = "await_amount"
                               /\ UNCHANGED out
    /\ UNCHANGED <<args, cfgFile, tables, todo, parts, clock, prev, exec, probe>>

\* lines 207-247: the operator answers the amount prompt; the period is
\* built, run is called, the row loop ends and main exits
AnswerAmount ==
    /\ pc = "await_amount"
    /\ \E answer \in AmountAnswers, faults \in DbFaults :
        LET t == chosen.name
        IN  CASE answer.tag = "Err" ->
                   /\ out' = Append(out, Line(t, [tag |-> "PromptError"]))
                   /\ pc' = "exit1"
                   /\ UNCHANGED <<calls, parts>>
              [] answer.tag = "None" ->
                   /\ out' = Append(out, Line(t, [tag |-> "TypedNothing"]))
                   /\ pc' = "exit1"
                   /\ UNCHANGED <<calls, parts>>
              [] OTHER ->
                   LET p == new_retention_period(answer.amount, chosen.pb)
                   IN  IF p.tag # "Ok"
                       THEN /\ out' = Append(out, Line(t, [tag |-> "Panic", cause |-> p.tag,
                                                           amount |-> answer.amount]))
                            /\ pc' = "panicked"
                            /\ UNCHANGED <<calls, parts>>
                       ELSE
                       LET r == run(t, p, clock, parts, faults)
                           said == out \o <<Line(t, [tag |-> "Deleting"]), Line(t, r.res)>>
                       IN  /\ calls' = calls \o r.calls
                           /\ parts' = r.parts
                           /\ IF r.res.tag = "Panic"
                              THEN out' = said /\ pc' = "panicked"
                              ELSE IF r.res.tag = "Ok"
                              THEN /\ out' = Append(said, Line(t, [tag |-> "TableNotFound"]))
                                   /\ pc' = "exit1"
                              ELSE out' = said /\ pc' = "exit1"
    /\ UNCHANGED <<args, cfgFile, tables, todo, chosen, clock, prev, exec, probe>>

\* time passes while the process runs
Tick ==
    /\ pc \notin Terminal
    /\ clock < MaxClock
    /\ clock' = clock + 1
    /\ UNCHANGED <<progVars, parts, prev, exec, probe>>

Init ==
    /\ args \in [config : BOOLEAN, interactive : BOOLEAN]
    /\ cfgFile \in (IF args.config THEN ConfigFiles ELSE {NoFile})
    /\ tables = <<>>
    /\ pc = "start"
    /\ todo = {}
    /\ chosen = NoTable
    /\ out = <<>>
    /\ calls = <<>>
    /\ parts = StoreInit
    /\ clock = Clock0
    /\ prev = [t \in CatalogNames |-> NoExec]
    /\ exec = NoExec
    /\ probe = NoProbe

Next ==
    \/ Start
    \/ BatchStep
    \/ AnswerTable
    \/ AnswerAmount
    \/ Tick

Spec == Init /\ [][Next]_vars

---------------------------------------------------------------------------
(* The executor applied again and again to one store: the body of the      *)
(* batch loop for a table and an amount, the clock advancing and new data  *)
(* arriving in between.                                                    *)

\* the partition a row written at `time` falls into
PartitionStart(table, time) ==
    LET p == FromStrPartitionBy(Catalog[table].partitionBy)
    IN  IF p.tag = "Ok" /\ p.pb = PB_Hour THEN time
        ELSE IF p.tag = "Ok" /\ p.pb = PB_Day THEN (time \div HoursPerDay) * HoursPerDay
        ELSE 0

ExecTables == {"trades", "quotes", "logs", "ghost"}
ExecAmounts == 1..MaxExecAmount

\* one run of the tool on a one-table configuration, whose amount may have
\* been edited since the run before
Execute ==
    /\ pc = "exec"
    /\ \E t \in DOMAIN tables, a \in ExecAmounts, faults \in DbFaults :
        LET b == BatchBody(t, a, clock, parts, faults)
            ok == b.line.res.tag = "Ok"
        IN  /\ tables' = [tables EXCEPT ![t] = a]
            /\ parts' = b.parts
            /\ exec' = [tag |-> "Ran", table |-> t, amount |-> a, now |-> clock,
                        res |-> b.line.res,
                        gone |-> IF t \in CatalogNames THEN parts[t] \ b.parts[t] ELSE {},
                        before |-> IF t \in CatalogNames THEN prev[t] ELSE NoExec]
            /\ prev' = IF ok
                       THEN [prev EXCEPT ![t] = [tag |-> "Ok", amount |-> a,
                                                 ts |-> b.line.res.ts, now |-> clock]]
                       ELSE prev
    /\ UNCHANGED <<args, cfgFile, pc, todo, chosen, out, calls, clock, probe>>

\* the oldest partition the table started with
Oldest(t) == CHOOSE q \in StoreInit[t] : \A r \in StoreInit[t] : q <= r

\* new data arrives in the table: a row in the current partition, or a late
\* row in the oldest partition, when the table does not hold that partition
Ingest ==
    /\ pc = "exec"
    /\ \E t \in DOMAIN tables \cap CatalogNames :
        \E q \in {Oldest(t), PartitionStart(t, clock)} \ parts[t] :
            /\ parts' = [parts EXCEPT ![t] = @ \cup {q}]
            /\ prev' = [prev EXCEPT ![t] = NoExec]
    /\ UNCHANGED <<progVars, clock, exec, probe>>

InitExec ==
    /\ args = [config |-> TRUE, interactive |-> FALSE]
    /\ tables \in {[n \in {t} |-> a] : t \in ExecTables, a \in ExecAmounts}
    /\ cfgFile = [tag |-> "Ok", tables |-> tables]
    /\ pc = "exec"
    /\ todo = {}
    /\ chosen = NoTable
    /\ out = <<>>
    /\ calls = <<>>
    /\ parts = StoreInit
    /\ clock = Clock0
    /\ prev = [t \in CatalogNames |-> NoExec]
    /\ exec = NoExec
    /\ probe = NoProbe

NextExec ==
    \/ Execute
    \/ Ingest
    \/ Tick

ExecSpec == InitExec /\ [][NextExec]_vars

---------------------------------------------------------------------------
(* The pure functions applied to inputs drawn from bounded sets *)

ProbeValidate ==
    /\ pc = "pure"
    /\ \E a \in Amounts, g \in PartitionBy :
        probe' = [fn |-> "new_retention_period", amount |-> a, pb |-> g,
                  res |-> new_retention_period(a, g)]
    /\ UNCHANGED <<progVars, parts, clock, prev, exec>>

ProbeCompute ==
    /\ pc = "pure"
    /\ \E a \in {x \in Amounts : x > 0}, g \in PartitionBy, now \in Clock0..MaxClock :
        probe' = [fn |-> "get_oldest_timestamp", amount |-> a, pb |-> g, now |-> now,
                  res |-> get_oldest_timestamp([amount |-> a, pb |-> g], now)]
    /\ UNCHANGED <<progVars, parts, clock, prev, exec>>

\* parse a text and, when it parses, format the value again
ProbeParse ==
    /\ pc = "pure"
    /\ \E s \in Texts :
        LET r == FromStrPartitionBy(s)
        IN  probe' = [fn |-> "from_str", text |-> s, res |-> r,
                      shown |-> IF r.tag = "Ok" THEN FormatPartitionBy(r.pb) ELSE ""]
    /\ UNCHANGED <<progVars, parts, clock, prev, exec>>

InitPure ==
    /\ args = [config |-> FALSE, interactive |-> FALSE]
    /\ cfgFile = NoFile
    /\ tables = <<>>
    /\ pc = "pure"
    /\ todo = {}
    /\ chosen = NoTable
    /\ out = <<>>
    /\ calls = <<>>
    /\ parts = StoreInit
    /\ clock = Clock0
    /\ prev = [t \in CatalogNames |-> NoExec]
    /\ exec = NoExec
    /\ probe = NoProbe

NextPure ==
    \/ ProbeValidate
    \/ ProbeCompute
    \/ ProbeParse

PureSpec == InitPure /\ [][NextPure]_vars

---------------------------------------------------------------------------
(* Claims about the program (Spec) *)

Lines == {out[i] : i \in 1..Len(out)}
Statements == {calls[i] : i \in {j \in 1..Len(calls) : calls[j].op = "execute"}}

\* the batch loop was entered: batch mode, configuration loaded, connected
BatchEntered ==
    /\ ~args.interactive
    /\ pc \in {"batch", "done", "panicked"}
    /\ Line("", Unwrapped("connect")) \notin Lines

\* a line that reports an outcome for table t: rows deleted, or an error
IsOutcome(l, t) == l.table = t /\ l.res.tag # "Panic"

\* C1: in batch mode no failure belonging to one table aborts the run:
\* whenever the batch run has ended, it ended by returning from main after
\* every table name of the mapping was processed.
C1_BatchRunsToCompletion ==
    (BatchEntered /\ pc \in Terminal) =>
        /\ pc = "done"
        /\ todo = {}
        /\ \A t \in DOMAIN tables : \E l \in Lines : l.table = t

\* C2: when a batch run has ended, the printed results hold exactly one
\* outcome (a count or an error) for each table name of the mapping and
\* none for any other table.
C2_OneOutcomePerTable ==
    (BatchEntered /\ pc \in Terminal) =>
        /\ \A t \in DOMAIN tables :
             Cardinality({i \in 1..Len(out) : IsOutcome(out[i], t)}) = 1
        /\ \A l \in Lines : l.table \in DOMAIN tables

\* the validation errors, as printed or as the cause of an unwrap panic
ValidationErrors ==
    {"InvalidAmount", "InvalidPartitionBy", "UnsupportedPartitionBy",
     "UnknownPartitionBy"}

HasValidationError(l) ==
    \/ l.res.tag \in ValidationErrors
    \/ l.res.tag = "PartitionByNone"
    \/ l.res.tag = "Panic" /\ l.res.cause \in ValidationErrors

\* C3: in both modes, when a validation error arose for a table, no DROP
\* PARTITION statement was submitted for that table and its partitions are
\* the ones it started with.
C3_ValidationErrorMeansNoDrop ==
    \A l \in Lines :
        HasValidationError(l) =>
            /\ \A c \in Statements : c.table # l.table
            /\ l.table \in CatalogNames => parts[l.table] = StoreInit[l.table]

\* C3 witness: a run in which one table was rejected by validation while
\* another table's partitions were dropped
C3_Witness ==
    /\ \E l \in Lines : HasValidationError(l) /\ l.table \in CatalogNames
    /\ \E c \in Statements : parts[c.table] # StoreInit[c.table]

---------------------------------------------------------------------------
(* Claims about the pure functions (PureSpec) *)

Validated == probe.fn = "new_retention_period"
Computed == probe.fn = "get_oldest_timestamp"
Parsed == probe.fn = "from_str"

\* C4 as claimed: for every amount <= 0 and every granularity, None
\* included, new_retention_period fails with InvalidAmount(amount).
C4_Original ==
    (Validated /\ probe.amount <= 0) =>
        probe.res = [tag |-> "InvalidAmount", amount |-> probe.amount]

\* C4 as amended: for every amount <= 0, new_retention_period fails; with
\* InvalidAmount(amount) when the granularity is Year, Month, Day or Hour,
\* and with InvalidPartitionBy(None) when it is None, which is tested first.
C4_NonPositiveAmountRejected ==
    (Validated /\ probe.amount <= 0) =>
        IF probe.pb = PB_None
        THEN probe.res = [tag |-> "InvalidPartitionBy", pb |-> PB_None]
        ELSE probe.res = [tag |-> "InvalidAmount", amount |-> probe.amount]

\* C4 witness: amount 0 with a granularity other than None was rejected
C4_Witness ==
    /\ Validated /\ probe.amount = 0 /\ probe.pb = PB_Day
    /\ probe.res.tag = "InvalidAmount"

\* C5: for every amount > 0, new_retention_period(amount, None) fails with
\* InvalidPartitionBy(None) and new_retention_period(amount, g) for g in
\* {Hour, Day, Month, Year} is Ok with exactly that amount and granularity.
C5_PositiveAmount ==
    (Validated /\ probe.amount > 0) =>
        IF probe.pb = PB_None
        THEN probe.res = [tag |-> "InvalidPartitionBy", pb |-> PB_None]
        ELSE probe.res = [tag |-> "Ok", amount |-> probe.amount, pb |-> probe.pb]

\* C5 witness: a positive amount with None was rejected
C5_Witness ==
    /\ Validated /\ probe.amount > MaxSmall /\ probe.pb = PB_None
    /\ probe.res.tag = "InvalidPartitionBy"

\* C6: get_oldest_timestamp returns a timestamp only for Day and Hour; for
\* Month, Year and None it fails with UnsupportedPartitionBy carrying that
\* granularity, whatever the amount.
C6_OnlyDayAndHour ==
    Computed =>
        /\ probe.res.tag = "Ok" => probe.pb \in {PB_Day, PB_Hour}
        /\ probe.pb \in {PB_Month, PB_Year, PB_None} =>
             probe.res = [tag |-> "UnsupportedPartitionBy", pb |-> probe.pb]

\* C6 witness: a Month policy with amount 1 was rejected
C6_Witness ==
    /\ Computed /\ probe.pb = PB_Month /\ probe.amount = 1
    /\ probe.res.tag = "UnsupportedPartitionBy"

\* C7: for every positive amount get_oldest_timestamp returns exactly
\* now - amount * 24h for Day and now - amount * 1h for Hour; there is no
\* amount at which it fails or aborts instead.
C7_ExactCutoffForEveryAmount ==
    (Computed /\ probe.amount > 0) =>
        /\ probe.pb = PB_Day =>
             probe.res = [tag |-> "Ok", ts |-> probe.now - probe.amount * HoursPerDay]
        /\ probe.pb = PB_Hour =>
             probe.res = [tag |-> "Ok", ts |-> probe.now - probe.amount]

\* C8: format(parse(s)) = s for each of the five labels, and parse fails
\* with UnknownPartitionBy(s) for every other text.
C8_RoundTrip ==
    Parsed =>
        IF probe.text \in {"NONE", "YEAR", "MONTH", "DAY", "HOUR"}
        THEN probe.res.tag = "Ok" /\ probe.shown = probe.text
        ELSE probe.res = [tag |-> "UnknownPartitionBy", text |-> probe.text]

---------------------------------------------------------------------------
(* Claims about repeated runs of the executor (ExecSpec) *)

\* the latest run succeeded, and so did an earlier run on the same table,
\* with no data arriving in the table since that earlier run
Rerun ==
    /\ exec.tag = "Ran"
    /\ exec.res.tag = "Ok"
    /\ exec.before.tag = "Ok"

\* C9 as claimed: a second run on the same table with the same amount, no
\* data having arrived in between, reports 0 rows deleted.
C9_Original ==
    (Rerun /\ exec.amount = exec.before.amount) => exec.res.n = 0

\* C9 as amended: a second successful run on the same table with the same
\* amount, no data having arrived in between, reports 0 rows deleted if the
\* clock it reads is the one the first run read; if the clock has advanced
\* it removes, and counts, just the partitions from the first run's cutoff
\* up to its own later cutoff.
C9_SecondRunRemovesOnlyNewlyAged ==
    (Rerun /\ exec.amount = exec.before.amount) =>
        /\ exec.now = exec.before.now => exec.res.n = 0 /\ exec.gone = {}
        /\ \A q \in exec.gone : exec.before.ts <= q /\ q < exec.res.ts
        /\ exec.res.n = Cardinality(exec.gone)

\* C9 witness: the first run removed partitions and the second run, with
\* the same amount, reported 0
C9_Witness ==
    /\ Rerun /\ exec.amount = exec.before.amount
    /\ exec.res.n = 0
    /\ parts[exec.table] # StoreInit[exec.table]
    /\ parts[exec.table] # {}

\* C10 as claimed: after a successful run with amount a, a run on the same
\* table with the same or a smaller positive amount removes no partitions.
C10_Original ==
    (Rerun /\ exec.amount <= exec.before.amount) => exec.gone = {}

\* C10 as amended: after a successful run with amount a, and with no data
\* arriving in between, a run on the same table removes no partitions when
\* its cutoff is not later than the earlier run's; that is so for the same
\* or a larger amount read against the same clock value, not for a smaller
\* amount.
C10_NoLaterCutoffRemovesNothing ==
    Rerun =>
        /\ exec.res.ts <= exec.before.ts => exec.gone = {} /\ exec.res.n = 0
        /\ (exec.amount >= exec.before.amount /\ exec.now = exec.before.now) =>
             exec.res.ts <= exec.before.ts /\ exec.gone = {}

\* C10 witness: the first run removed partitions and a run with a larger
\* amount then removed none
C10_Witness ==
    /\ Rerun /\ exec.amount > exec.before.amount
    /\ exec.gone = {}
    /\ parts[exec.table] # StoreInit[exec.table]
    /\ parts[exec.table] # {}

---------------------------------------------------------------------------
(* Claims about the interactive session (Spec) *)

\* the positions in `calls` of the executor's first step, one per invocation
Invocations == {j \in 1..Len(calls) : calls[j].op = "query_col"}

\* the positions in `out` of "Deleting old partitions...", printed just
\* before the executor is called in an interactive session
Reached == {i \in 1..Len(out) : out[i].res.tag = "Deleting"}

\* C11: an interactive session that reached execution and has ended invoked
\* the executor exactly once, reported exactly one result and nothing after
\* it, and ended with success if the execution succeeded and with an error
\* if it failed.
C11_OneResultThenExit ==
    (args.interactive /\ pc \in Terminal) =>
        \A i \in Reached :
            /\ Cardinality(Invocations) = 1
            /\ Len(out) = i + 1
            /\ out[i + 1].res.tag = "Ok" => pc = "exit0"
            /\ out[i + 1].res.tag # "Ok" => pc = "exit1"

\* the granularity the catalog records for a table is NONE
CatalogNone(t) == t \in CatalogNames /\ Catalog[t].partitionBy = "NONE"

\* C12: in an interactive session a table whose catalog granularity is None
\* never reaches the amount prompt and never has a statement submitted for
\* it; choosing it ends the session with an error, the "partitionBy == NONE"
\* report being the last thing printed.
C12_NoneEndsBeforeAmount ==
    args.interactive =>
        /\ pc = "await_amount" => chosen # NoTable
        /\ chosen # NoTable => ~CatalogNone(chosen.name)
        /\ \A c \in Statements : ~CatalogNone(c.table)
        /\ \A i \in 1..Len(out) :
             CatalogNone(out[i].table) =>
                /\ pc \in {"exit1", "panicked"}
                /\ i = Len(out)
                /\ out[i].res.tag \in {"PartitionByNone", "Panic"}
                /\ Statements = {}
                /\ Reached = {}

\* C12 witness: the operator chose refdata, whose granularity is NONE, and
\* the session ended with the report and exit status 1
C12_Witness ==
    /\ args.interactive
    /\ pc = "exit1"
    /\ out = <<Line("refdata", [tag |-> "PartitionByNone"])>>
    /\ \E j \in 1..Len(calls) : calls[j].op = "query_tables"

\* the positions in `out` of lines about a name that no catalog row has
Uncatalogued == {i \in 1..Len(out) : out[i].table \notin CatalogNames \cup {""}}

\* C13: in an interactive session a name that no catalog row has exactly
\* (the match is case-sensitive) is answered with "table not found" and exit
\* status 1: the report is the last thing printed, the catalog was read once
\* (the table prompt was not shown again), the amount prompt was not shown
\* and no statement was submitted.  The row the amount prompt is shown for
\* always carries a catalog name.
C13_NoMatchEndsSession ==
    args.interactive =>
        /\ chosen # NoTable => chosen.name \in CatalogNames
        /\ \A c \in Statements : c.table \in CatalogNames
        /\ \A i \in Uncatalogued :
             /\ out[i].res.tag \in {"TableNotFound", "Panic"}
             /\ out[i].res.tag = "TableNotFound" => pc = "exit1"
             /\ out[i].res.tag = "Panic" => pc = "panicked"
             /\ i = Len(out)
             /\ Cardinality({j \in 1..Len(calls) : calls[j].op = "query_tables"}) = 1
             /\ chosen = NoTable
             /\ Statements = {}

\* C13 witness: the operator typed TRADES, the catalog holds trades, and the
\* session ended with "table not found" and exit status 1
C13_Witness ==
    /\ args.interactive
    /\ "trades" \in CatalogNames
    /\ out = <<Line("TRADES", [tag |-> "TableNotFound"])>>
    /\ pc = "exit1"
    /\ chosen = NoTable

\* the positions in `out` of the panic of .unwrap() on Err(InvalidAmount)
AmountRejected ==
    {i \in 1..Len(out) : out[i].res.tag = "Panic" /\ out[i].res.cause = "InvalidAmount"}

\* C14: in an interactive session an amount answer of 0 or less ends the
\* session with an error (the panic of unwrap on InvalidAmount) and the
\* executor is not invoked in that session: no lookup, no statement, no
\* partition removed.  The amount that reached validation is a number the
\* prompt's i32 check let through, and an executor that got as far as a
\* statement was given a positive amount.
C14_NonPositiveAnswerEndsSession ==
    args.interactive =>
        /\ \A i \in AmountRejected :
             /\ out[i].res.amount <= 0
             /\ out[i].res.amount \in I32Amounts
             /\ pc = "panicked"
             /\ i = Len(out)
             /\ Invocations = {}
             /\ Statements = {}
             /\ Reached = {}
             /\ parts = StoreInit
        /\ \A c \in Statements : c.ts < c.now

\* C14 witness: the operator chose trades and answered 0; the session
\* ended on the panic with the executor never invoked
C14_Witness ==
    /\ args.interactive
    /\ pc = "panicked"
    /\ out = <<Line("trades", [tag |-> "Panic", cause |-> "InvalidAmount", amount |-> 0])>>
    /\ chosen # NoTable
    /\ Invocations = {}

---------------------------------------------------------------------------
(* Claims about the mode and the statements submitted (Spec) *)

\* C15: a process started with neither a configuration path nor the
\* interactive flag, or with both, makes no database call (no connection, no
\* catalog query, no statement) and, once it has ended, has reported an error
\* and exited with a failure status.
C15_ExactlyOneMode ==
    (args.config = args.interactive) =>
        /\ calls = <<>>
        /\ pc \in Terminal => pc = "exit1" /\ out # <<>>

\* C16: every statement submitted carries its cutoff written as
\* yyyy-MM-dd:HH:mm:ss (date and time joined by a colon, no fraction, no
\* zone); for trades, Day, amount 7 and now = 2024-06-10T00:00:00Z the text
\* is "2024-06-03:00:00:00".
C16_CutoffWrittenAsPattern ==
    \A c \in Statements :
        /\ c.text = PatternDateTime(c.ts)
        /\ (c.table = "trades" /\ FormatDate(c.now) = "2024-06-10"
              /\ FormatTime(c.now) = "00:00:00" /\ c.ts = c.now - 7 * HoursPerDay)
             => c.text = "2024-06-03:00:00:00"

\* the executor looked up the timestamp column of table t
LookedUp(t) == \E j \in Invocations : calls[j].table = t

\* the executor submitted a statement for table t
Submitted(t) == \E c \in Statements : c.table = t

\* the panics of the cutoff computation
CutoffPanics == {"Duration out of bounds", "DateTime - Duration overflowed"}

\* the line reports that the executor stopped at the lookup
LookupFailed(l) ==
    \/ l.res.tag = "DbError" /\ l.res.op = "query_col"
    \/ l.res.tag = "Panic" /\ l.res.cause = "NULL column"

\* the line reports that the executor stopped at the cutoff computation
CutoffFailed(l) ==
    \/ l.res.tag = "UnsupportedPartitionBy"
    \/ l.res.tag = "Panic" /\ l.res.cause \in CutoffPanics

\* C17: within one executor invocation the steps run in the order lookup,
\* cutoff, statement, each at most once.  A statement directly follows the
\* lookup for the same table, and no table is looked up twice; a reported
\* lookup failure means no statement (and no cutoff panic, whatever the
\* amount); a reported cutoff failure means the lookup was made and no
\* statement was; a statement's own failure or the count is reported only
\* when the statement was submitted; and every invocation's result is one
\* of these.
C17_StepsInOrder ==
    /\ \A j \in 1..Len(calls) :
         calls[j].op = "execute" =>
            /\ j > 1
            /\ calls[j - 1].op = "query_col"
            /\ calls[j - 1].table = calls[j].table
    /\ \A j, k \in Invocations : calls[j].table = calls[k].table => j = k
    /\ \A l \in Lines :
         /\ LookupFailed(l) => LookedUp(l.table) /\ ~Submitted(l.table)
         /\ CutoffFailed(l) => LookedUp(l.table) /\ ~Submitted(l.table)
         /\ (l.res.tag = "DbError" /\ l.res.op = "execute") => Submitted(l.table)
         /\ l.res.tag = "Ok" =>
              \E c \in Statements : c.table = l.table /\ c.ts = l.res.ts
    /\ \A j \in Invocations :
         \E l \in Lines :
            /\ l.table = calls[j].table
            /\ IF Submitted(l.table)
               THEN l.res.tag = "Ok" \/ (l.res.tag = "DbError" /\ l.res.op = "execute")
               ELSE LookupFailed(l) \/ CutoffFailed(l)

\* C17 witness: a batch run over three tables has ended; for quotes, whose
\* amount no Duration holds, the lookup failed and that error is its result;
\* for logs the cutoff computation failed after the lookup; for trades the
\* statement was submitted
C17_Witness ==
    /\ pc = "done"
    /\ DOMAIN tables = {"trades", "quotes", "logs"}
    /\ tables["quotes"] > DurationMax
    /\ Line("quotes", [tag |-> "DbError", op |-> "query_col"]) \in Lines
    /\ Line("logs", [tag |-> "UnsupportedPartitionBy", pb |-> PB_Month]) \in Lines
    /\ LookedUp("logs")
    /\ Submitted("trades")

\* the hours in one unit of a catalog table's granularity (Day or Hour)
UnitOf(t) == IF Catalog[t].partitionBy = "DAY" THEN HoursPerDay ELSE 1

\* C18: the cutoff of every statement comes from the clock as it stands at
\* the step that submits the statement, not from an earlier reading: in a
\* batch run each statement's cutoff is the clock at that table's own
\* evaluation minus the table's amount (in hours).
C18_CutoffFromClockAtEvaluation ==
    [][\A j \in (Len(calls) + 1)..Len(calls') :
          calls'[j].op = "execute" =>
             /\ calls'[j].now = clock
             /\ ~args.interactive =>
                  calls'[j].ts = clock - tables[calls'[j].table] * UnitOf(calls'[j].table)]_vars

\* C18 witness: a batch run submitted a statement for one table at the
\* starting clock and, the clock having advanced, a statement for another
\* table whose cutoff is the later clock minus that table's amount
C18_Witness ==
    /\ ~args.interactive
    /\ \E c1, c2 \in Statements :
         /\ c1.table # c2.table
         /\ c1.now = Clock0
         /\ c1.ts = Clock0 - tables[c1.table] * UnitOf(c1.table)
         /\ c2.now > Clock0
         /\ c2.ts = c2.now - tables[c2.table] * UnitOf(c2.table)

\* C19: every statement submitted targets a key of the configured mapping
\* (batch mode) or the table the operator chose (interactive mode); a catalog
\* table no statement was submitted for holds the partitions it started
\* with; and when the interactive flag is set the batch loop does nothing:
\* it makes no catalog query for a configured table and prunes none.
C19_OnlyNamedTablesPruned ==
    /\ \A c \in Statements :
         IF args.interactive
         THEN chosen # NoTable /\ c.table = chosen.name
         ELSE c.table \in DOMAIN tables
    /\ \A t \in CatalogNames : ~Submitted(t) => parts[t] = StoreInit[t]
    /\ args.interactive =>
         /\ pc # "batch"
         /\ todo = {}
         /\ \A j \in 1..Len(calls) : calls[j].op # "query_row"

\* C19 witness: started with a configuration naming trades and with the
\* interactive flag, the operator chose quotes; a partition of quotes was
\* removed and trades holds what it started with
C19_Witness ==
    /\ args.interactive /\ args.config
    /\ "trades" \in DOMAIN tables
    /\ chosen # NoTable
    /\ chosen.name = "quotes"
    /\ Submitted("quotes")
    /\ parts["quotes"] # StoreInit["quotes"]
    /\ parts["trades"] = StoreInit["trades"]

\* C20: every statement submitted has a cutoff strictly earlier than the
\* clock read for it, which is no later than the clock now; so every
\* partition removed so far lies before the current time.
C20_CutoffBeforeNow ==
    /\ \A c \in Statements : c.ts < c.now /\ c.now <= clock
    /\ \A t \in CatalogNames : \A q \in StoreInit[t] \ parts[t] : q < clock

\* C20 witness: with the smallest period, one hour, a statement for quotes
\* had the cutoff one hour before the clock and removed the partition just
\* before it, leaving the current one
C20_Witness ==
    /\ \E c \in Statements :
         c.table = "quotes" /\ c.ts = c.now - 1 /\ c.now = clock
    /\ parts["quotes"] = {q \in StoreInit["quotes"] : q >= clock - 1}
    /\ parts["quotes"] # StoreInit["quotes"]

=============================================================================
